---- MODULE Spec2Model ----
(***************************************************************************)
(* HPKV REST client (hpkv-io/rest-client, python).                         *)
(*                                                                         *)
(* Two clients are modelled:                                               *)
(*   "blocking"    src/sdk/python/src/hpkv_rest_client/hpkv_client.py      *)
(*                 (HPKVClient, typed exception hierarchy, shape checks)   *)
(*   "nonblocking" src/python/async_hpkv_client.py                         *)
(*                 (AsyncHPKVClient, aiohttp session, scope protocol)      *)
(*                                                                         *)
(* A call is a little process: Call sends the one HTTP request, Respond is *)
(* the server's answer (any status, any body), then the client's           *)
(* _handle_errors step runs, then the response.json() / shape-validation   *)
(* step, and Finish hands the outcome to the caller.                       *)
(***************************************************************************)
EXTENDS Integers, Sequences, FiniteSets, TLC

VARIABLES
    kind,       \* which client object exists: "none", "blocking", "nonblocking"
    base_url,   \* self.base_url
    api_key,    \* self.api_key
    headers,    \* self.headers
    ctor,       \* the last construction attempt and how it ended
    session,    \* AsyncHPKVClient.session: 0 is None, else a session id
    sessState,  \* every aiohttp.ClientSession created so far: "open" / "closed"
    depth,      \* usage scopes entered and not yet left
    scoped,     \* session ids created by __aenter__ (the others: lazily by a call)
    lastScope,  \* the last scope operation: "none", "aenter", "aexit"
    pc,         \* position of the caller: "new","failed","idle","sent",
                \* "responded","classified","done"
    op,         \* the operation of the call in progress
    request,    \* the HTTP request in flight
    response,   \* the HTTP response received
    outcome,    \* what the call surfaced: a returned value or a raised exception
    log,        \* the steps the call in progress has executed, in order
    used,       \* the session the call in progress sends its request over
    calls,      \* calls started on this client
    args,       \* the arguments of the call in progress
    tasks,      \* concurrently scheduled calls of the non-blocking client
    store,      \* the server's records: transmitted key text -> value text
    written     \* per key, what the caller last did to it and with which value

vars == <<kind, base_url, api_key, headers, ctor, session, sessState, depth,
          scoped, lastScope, pc, op, request, response, outcome, log, used, calls,
          args, tasks, store, written>>

(***************************************************************************)
(* Bounds of the model.                                                    *)
(***************************************************************************)
MaxCalls == 3       \* calls made through one client
MaxFields == 3      \* fields of a JSON object body
MaxSessions == 3    \* transport sessions one client may create
MaxDepth == 2       \* nesting of usage scopes
MaxTasks == 2       \* concurrently scheduled calls of the non-blocking client
MaxNum == 64        \* the server's counters range over -MaxNum..MaxNum

(***************************************************************************)
(* Python / JSON values, tagged by type.  None is JSON null.               *)
(***************************************************************************)
None == [t |-> "null"]
JBool(b) == [t |-> "bool", b |-> b]
JNum(n) == [t |-> "num", n |-> n]
JStr(s) == [t |-> "str", s |-> s]
JArr(items) == [t |-> "arr", items |-> items]
JObj(fields) == [t |-> "obj", fields |-> fields]

\* bool(v): Python truthiness, as used by `if error_data and ...`, `if not base_url`
Truthy(v) ==
    CASE v.t = "null" -> FALSE
      [] v.t = "bool" -> v.b
      [] v.t = "num" -> v.n # 0
      [] v.t = "str" -> v.s # ""
      [] v.t = "arr" -> Len(v.items) > 0
      [] v.t = "obj" -> DOMAIN v.fields # {}

\* p is a substring of s
HasSubstring(s, p) ==
    \E i \in 1..(Len(s) - Len(p) + 1) : SubSeq(s, i, i + Len(p) - 1) = p

\* `name in v`: "yes", "no", or "TypeError" (argument of type ... is not iterable)
Contains(v, name) ==
    CASE v.t = "obj" -> IF name \in DOMAIN v.fields THEN "yes" ELSE "no"
      [] v.t = "str" -> IF HasSubstring(v.s, name) THEN "yes" ELSE "no"
      [] v.t = "arr" -> IF \E i \in 1..Len(v.items) : v.items[i] = JStr(name)
                        THEN "yes" ELSE "no"
      [] OTHER -> "TypeError"

\* isinstance(v, dict)
IsDict(v) == v.t = "obj"

(***************************************************************************)
(* The server's possible responses.                                        *)
(***************************************************************************)
Ops == {"set", "get", "delete", "increment", "query"}

Statuses == {200, 204, 302, 400, 401, 402, 403, 404, 409, 429, 499, 500, 503, 599, 600}

Fields == {"error", "success", "key", "value", "result", "records", "count", "truncated"}

\* a value of the type the response contract gives the field
GoodVal(f) ==
    CASE f = "error" -> JStr("boom")
      [] f = "success" -> JBool(TRUE)
      [] f = "key" -> JStr("k")
      [] f = "value" -> JStr("v")
      [] f = "result" -> JNum(1)
      [] f = "records" -> JArr(<<JObj([key |-> JStr("k"), value |-> JStr("v")])>>)
      [] f = "count" -> JNum(1)
      [] f = "truncated" -> JBool(TRUE)

\* a value of another type
BadVal(f) ==
    CASE f = "error" -> JNum(7)
      [] f = "success" -> JStr("yes")
      [] f = "key" -> JNum(5)
      [] f = "value" -> None
      [] f = "result" -> JStr("1")
      [] f = "records" -> JStr("none")
      [] f = "count" -> JStr("1")
      [] f = "truncated" -> JBool(FALSE)

ObjectValues ==
    { JObj([f \in S |-> IF good THEN GoodVal(f) ELSE BadVal(f)]) :
        S \in {T \in SUBSET Fields : Cardinality(T) <= MaxFields},
        good \in BOOLEAN }

\* decoded JSON values that are not objects
ScalarValues ==
    { None, JBool(FALSE), JBool(TRUE), JNum(0), JNum(5),
      JStr(""), JStr("abc"), JStr("an error page"),
      JArr(<<>>), JArr(<<JNum(1)>>), JArr(<<JStr("error")>>) }

JsonValues == ObjectValues \cup ScalarValues

\* a body is absent (empty text), text that is not JSON, or the text of a JSON value
Bodies ==
    {[raw |-> "absent"], [raw |-> "garbage"]}
        \cup {[raw |-> "json", json |-> v] : v \in JsonValues}

\* chunked: no Content-Length header; ctype_json: Content-Type is application/json
Responses ==
    { [status |-> s, body |-> b, chunked |-> c, ctype_json |-> j] :
        s \in Statuses, b \in Bodies, c \in BOOLEAN, j \in BOOLEAN }

\* the blocking client reads neither header
PlainResponses == { r \in Responses : ~r.chunked /\ r.ctype_json }

NoResponse == [status |-> 0]
NoRequest == [method |-> "none"]
NoOutcome == [kind |-> "none"]

(***************************************************************************)
(* Outcomes of a call.                                                     *)
(***************************************************************************)
Return(v) == [kind |-> "return", value |-> v]

\* HPKVException.__init__(message, status_code, response_data) and subclasses
Raise(cls, message, status_code, response_data) ==
    [kind |-> "raise", cls |-> cls, message |-> message,
     status_code |-> status_code, response_data |-> response_data]

\* an exception that is not of the HPKVException family
RaiseOther(cls) == [kind |-> "raise", cls |-> cls]

HPKVFamily ==
    {"HPKVException", "HPKVBadRequestError", "HPKVUnauthorizedError",
     "HPKVForbiddenError", "HPKVNotFoundError", "HPKVConflictError",
     "HPKVRateLimitError", "HPKVInternalError"}

\* f"HTTP error {response.status_code}"
GenericMessage(status) == JStr("HTTP error " \o ToString(status))

InvalidFormat == JStr("Invalid response format from server")

(***************************************************************************)
(* Construction (both clients): HPKVClient.__init__, AsyncHPKVClient.__init__ *)
(***************************************************************************)
\* what a caller may pass for base_url / api_key: absent, empty, or a string
EndpointArgs == {None, JStr(""), JStr("https://api.hpkv.io")}
CredentialArgs == {None, JStr(""), JStr("secret")}

NoCtor == [result |-> "none"]

\* self.headers = {"Content-Type": "application/json", "x-api-key": api_key}
DefaultHeaders(ak) ==
    ("Content-Type" :> JStr("application/json")) @@ ("x-api-key" :> ak)

\* InitCheck without the api_key guard
InitCheckEndpointOnly(bu, ak) ==
    IF ~Truthy(bu) THEN "base_url is required" ELSE "ok"

\* the two guards at the top of __init__, in order; "ok" when both pass
InitCheck(bu, ak) ==
    IF ~Truthy(bu) THEN "base_url is required"
    ELSE IF ~Truthy(ak) THEN "api_key is required"
    ELSE "ok"

\* __init__ of client class k with arguments bu, ak
Construct(k, bu, ak) ==
    /\ pc = "new"
    /\ LET chk == InitCheck(bu, ak) IN
       IF chk = "ok"
       THEN /\ kind' = k
            /\ base_url' = bu
            /\ api_key' = ak
            /\ headers' = DefaultHeaders(ak)
            /\ ctor' = [kind |-> k, base_url |-> bu, api_key |-> ak, result |-> "ok"]
            /\ pc' = "idle"
       ELSE /\ ctor' = [kind |-> k, base_url |-> bu, api_key |-> ak,
                        result |-> "ValueError", message |-> chk]
            /\ pc' = "failed"
            /\ UNCHANGED <<kind, base_url, api_key, headers>>
    \* AsyncHPKVClient sets self.session = None; no request, no session is made
    /\ UNCHANGED <<session, sessState, depth, scoped, lastScope, op, request,
                   response, outcome, log, used, calls, args, tasks, store, written>>

NewHPKVClient ==
    \E bu \in EndpointArgs, ak \in CredentialArgs : Construct("blocking", bu, ak)

NewAsyncHPKVClient ==
    \E bu \in EndpointArgs, ak \in CredentialArgs : Construct("nonblocking", bu, ak)

(***************************************************************************)
(* The request each operation sends (method and endpoint).                 *)
(***************************************************************************)
Method(o) ==
    CASE o = "set" -> "POST"
      [] o = "get" -> "GET"
      [] o = "delete" -> "DELETE"
      [] o = "increment" -> "POST"
      [] o = "query" -> "GET"

Endpoint(o) ==
    CASE o = "set" -> "/record"
      [] o = "get" -> "/record/{key}"
      [] o = "delete" -> "/record/{key}"
      [] o = "increment" -> "/record/atomic"
      [] o = "query" -> "/records"

BuildRequest(o) == [method |-> Method(o), endpoint |-> Endpoint(o), headers |-> headers]

(***************************************************************************)
(* Arguments of a call and what is transmitted for them.                   *)
(***************************************************************************)
\* urllib.parse.quote of one character: letters, digits and "_.-~/" are kept,
\* any other character becomes %XX (the keys of the model use ":", " ", "%")
QuoteChar(c) ==
    CASE c = ":" -> "%3A"
      [] c = " " -> "%20"
      [] c = "%" -> "%25"
      [] OTHER -> c

RECURSIVE Quote(_)
\* urllib.parse.quote(key)
Quote(s) ==
    IF Len(s) = 0 THEN ""
    ELSE QuoteChar(SubSeq(s, 1, 1)) \o Quote(SubSeq(s, 2, Len(s)))

\* the keys of a dict value in iteration order (the dict values of the model
\* have one key, so the order is the insertion order)
KeyOrder(S) ==
    CHOOSE q \in [1..Cardinality(S) -> S] : {q[i] : i \in 1..Cardinality(S)} = S

RECURSIVE Dumps(_)
RECURSIVE DumpsItems(_)
RECURSIVE DumpsFields(_, _)

\* json.dumps(v) with the default separators ", " and ": "
Dumps(v) ==
    CASE v.t = "null" -> "null"
      [] v.t = "bool" -> IF v.b THEN "true" ELSE "false"
      [] v.t = "num" -> ToString(v.n)
      [] v.t = "str" -> "\"" \o v.s \o "\""
      [] v.t = "arr" -> "[" \o DumpsItems(v.items) \o "]"
      [] v.t = "obj" -> "{" \o DumpsFields(v.fields, KeyOrder(DOMAIN v.fields)) \o "}"

DumpsItems(items) ==
    IF Len(items) = 0 THEN ""
    ELSE IF Len(items) = 1 THEN Dumps(items[1])
    ELSE Dumps(items[1]) \o ", " \o DumpsItems(Tail(items))

DumpsFields(fields, order) ==
    IF Len(order) = 0 THEN ""
    ELSE LET one == "\"" \o order[1] \o "\": " \o Dumps(fields[order[1]]) IN
         IF Len(order) = 1 THEN one
         ELSE one \o ", " \o DumpsFields(fields, Tail(order))

\* WireValue dumping every value, strings included
WireValueAlwaysDumps(value) == Dumps(value)

\* if not isinstance(value, str): value = json.dumps(value)
WireValue(value) == IF value.t # "str" THEN Dumps(value) ELSE value.s

\* the amount of increment, negated (a sign slip)
WireIncrementNegated(amount) == 0 - amount

\* "increment": increment  -- the amount as given
WireIncrement(amount) == amount

\* what a caller may pass
KeyArgs == {"k", "a:b"}
ValueArgs ==
    { JStr("v"), JStr("42"), JStr("0"), JNum(42),
      JObj([a |-> JNum(1)]), JArr(<<JNum(1), JNum(2)>>) }
AmountArgs == {1, 0 - 1, 2}

NoArgs == [none |-> TRUE]

\* the argument tuples of each operation
ArgsOf(o) ==
    CASE o = "set" ->
            {[key |-> k, value |-> v, partial_update |-> FALSE] :
                k \in KeyArgs, v \in ValueArgs}
      [] o = "get" -> {[key |-> k] : k \in KeyArgs}
      [] o = "delete" -> {[key |-> k] : k \in KeyArgs}
      [] o = "increment" -> {[key |-> k, increment |-> n] : k \in KeyArgs, n \in AmountArgs}
      [] o = "query" ->
            {[start_key |-> a, end_key |-> b, limit |-> 100] :
                a \in KeyArgs, b \in KeyArgs}

\* one argument tuple per operation, where the arguments are not under study
DefaultArgs(o) ==
    CASE o = "set" -> {[key |-> "a:b", value |-> JNum(42), partial_update |-> FALSE]}
      [] o = "get" -> {[key |-> "a:b"]}
      [] o = "delete" -> {[key |-> "a:b"]}
      [] o = "increment" -> {[key |-> "a:b", increment |-> 1]}
      [] o = "query" -> {[start_key |-> "a:b", end_key |-> "k", limit |-> 100]}

\* what goes on the wire besides method and endpoint: the key in the path, the
\* JSON payload, the query parameters
Payload(o, a) ==
    CASE o = "set" ->
            [json |-> [key |-> Quote(a.key), value |-> WireValue(a.value),
                       partialUpdate |-> a.partial_update]]
      [] o = "get" -> [path_key |-> Quote(a.key)]
      [] o = "delete" -> [path_key |-> Quote(a.key)]
      [] o = "increment" ->
            [json |-> [key |-> Quote(a.key), increment |-> WireIncrement(a.increment)]]
      [] o = "query" ->
            [params |-> [startKey |-> Quote(a.start_key), endKey |-> Quote(a.end_key),
                         limit |-> a.limit]]

\* the whole request of operation o called with arguments a
RequestOf(o, a) == Payload(o, a) @@ BuildRequest(o)

(***************************************************************************)
(* Blocking client: HPKVClient._handle_errors                              *)
(***************************************************************************)
\* requests.Response.ok: raise_for_status() raises for 400 <= status < 600 only
ResponseOk(status) == ~(400 <= status /\ status < 600)

\* ErrorData keeping a decoded body only when it is an object
ErrorDataDictOnly(resp) ==
    IF resp.body.raw = "json" /\ resp.body.json.t = "obj" THEN resp.body.json ELSE None

\* try: if response.text: error_data = response.json()
\* except json.JSONDecodeError: pass
ErrorData(resp) ==
    IF resp.body.raw = "json" THEN resp.body.json ELSE None

\* ExceptionClass without the status table
ExceptionClassGenericOnly(status) == "HPKVException"

\* the if/elif chain mapping the status code to the exception class
ExceptionClass(status) ==
    IF status = 400 THEN "HPKVBadRequestError"
    ELSE IF status = 401 THEN "HPKVUnauthorizedError"
    ELSE IF status = 403 THEN "HPKVForbiddenError"
    ELSE IF status = 404 THEN "HPKVNotFoundError"
    ELSE IF status = 409 THEN "HPKVConflictError"
    ELSE IF status = 429 THEN "HPKVRateLimitError"
    ELSE IF status >= 500 THEN "HPKVInternalError"
    ELSE "HPKVException"

\* if error_data and "error" in error_data: message = error_data["error"]
\* else: message = f"HTTP error {status}"
\* [ok |-> FALSE]: the test or the subscript raised TypeError
ErrorMessage(error_data, status) ==
    IF ~Truthy(error_data) THEN [ok |-> TRUE, message |-> GenericMessage(status)]
    ELSE LET c == Contains(error_data, "error") IN
         IF c = "TypeError" THEN [ok |-> FALSE]
         ELSE IF c = "no" THEN [ok |-> TRUE, message |-> GenericMessage(status)]
         ELSE IF IsDict(error_data)
              THEN [ok |-> TRUE, message |-> error_data.fields["error"]]
              ELSE [ok |-> FALSE]   \* str / list indexed by "error"

\* _handle_errors(response): NoOutcome when it returns normally
HandleErrorsResult(resp) ==
    IF ResponseOk(resp.status) THEN NoOutcome
    ELSE LET error_data == ErrorData(resp)
             m == ErrorMessage(error_data, resp.status)
         IN IF ~m.ok THEN RaiseOther("TypeError")
            ELSE Raise(ExceptionClass(resp.status), m.message, resp.status, error_data)

(***************************************************************************)
(* Blocking client: response.json() and the per-operation shape check      *)
(***************************************************************************)
\* HasRequired with get testing "key" alone (the test of "value" forgotten)
HasRequiredGetKeyOnly(o, result) ==
    CASE o = "set" -> "success" \in DOMAIN result.fields
      [] o = "get" -> "key" \in DOMAIN result.fields
      [] o = "delete" -> "success" \in DOMAIN result.fields
      [] o = "increment" -> "result" \in DOMAIN result.fields
      [] o = "query" -> "records" \in DOMAIN result.fields /\ "count" \in DOMAIN result.fields

\* the `in` tests of each operation's check (isinstance is tested before)
HasRequired(o, result) ==
    CASE o = "set" -> "success" \in DOMAIN result.fields
      [] o = "get" -> "key" \in DOMAIN result.fields /\ "value" \in DOMAIN result.fields
      [] o = "delete" -> "success" \in DOMAIN result.fields
      [] o = "increment" -> "result" \in DOMAIN result.fields
      [] o = "query" -> "records" \in DOMAIN result.fields /\ "count" \in DOMAIN result.fields

\* result = response.json(); if not isinstance(result, dict) or ... : raise; return result
ValidateResult(o, resp) ==
    IF resp.body.raw # "json" THEN RaiseOther("JSONDecodeError")
    ELSE LET result == resp.body.json IN
         IF ~IsDict(result) \/ ~HasRequired(o, result)
         THEN Raise("HPKVInternalError", InvalidFormat, resp.status, result)
         ELSE Return(result)

(***************************************************************************)
(* Non-blocking client: AsyncHPKVClient._handle_errors and the return      *)
(***************************************************************************)
\* aiohttp ClientResponse.json(): ContentTypeError unless the content type is
\* JSON; None for an empty body; json.JSONDecodeError for text that is not JSON
AiohttpJson(resp) ==
    IF ~resp.ctype_json THEN [ok |-> FALSE, exc |-> "ContentTypeError"]
    ELSE IF resp.body.raw = "absent" THEN [ok |-> TRUE, value |-> None]
    ELSE IF resp.body.raw = "garbage" THEN [ok |-> FALSE, exc |-> "JSONDecodeError"]
    ELSE [ok |-> TRUE, value |-> resp.body.json]

\* response.content_length and response.content_length > 0
HasContentLength(resp) == ~resp.chunked /\ resp.body.raw # "absent"

\* _handle_errors(response) of the non-blocking client
AsyncHandleErrorsResult(resp) ==
    IF ~(resp.status >= 400) THEN NoOutcome
    ELSE LET j == IF HasContentLength(resp) THEN AiohttpJson(resp)
                  ELSE [ok |-> TRUE, value |-> None]
         IN IF ~j.ok /\ j.exc # "JSONDecodeError" THEN RaiseOther(j.exc)
            ELSE LET error_data == IF j.ok THEN j.value ELSE None
                     m == ErrorMessage(error_data, resp.status)
                 IN IF ~m.ok THEN RaiseOther("TypeError")
                    ELSE Raise("HPKVException", m.message, resp.status, error_data)

\* return await response.json()
AsyncReturnResult(resp) ==
    LET j == AiohttpJson(resp) IN
    IF j.ok THEN Return(j.value) ELSE RaiseOther(j.exc)

(***************************************************************************)
(* Non-blocking client: the transport session and the usage scope          *)
(***************************************************************************)
\* aiohttp.ClientSession(): a new open session; its id
NewSessionId == Len(sessState) + 1

\* __aenter__: self.session = aiohttp.ClientSession()
AEnter ==
    /\ kind = "nonblocking"
    /\ pc = "idle"
    /\ depth < MaxDepth
    /\ Len(sessState) < MaxSessions
    /\ session' = NewSessionId
    /\ sessState' = Append(sessState, "open")
    /\ scoped' = scoped \cup {NewSessionId}
    /\ depth' = depth + 1
    /\ lastScope' = "aenter"
    /\ UNCHANGED <<args, tasks, store, written>>
    /\ UNCHANGED <<kind, base_url, api_key, headers, ctor, pc, op, request,
                   response, outcome, log, used, calls>>

\* __aexit__: if self.session: await self.session.close()
\* The scope is left normally or by the exception a call raised inside it.
AExit ==
    /\ kind = "nonblocking"
    /\ depth > 0
    /\ pc = "idle" \/ (pc = "done" /\ outcome.kind = "raise")
    /\ sessState' = IF session # 0
                    THEN [sessState EXCEPT ![session] = "closed"]
                    ELSE sessState
    /\ depth' = depth - 1
    /\ lastScope' = "aexit"
    /\ UNCHANGED <<args, tasks, store, written>>
    /\ UNCHANGED <<kind, base_url, api_key, headers, ctor, session, scoped, pc, op,
                   request, response, outcome, log, used, calls>>

(***************************************************************************)
(* A call, step by step.                                                   *)
(***************************************************************************)
\* HPKVClient.set/get/delete/increment/query up to requests.<method>(...)
\* A: for each operation, the argument tuples the caller may pass
SdkCallFrom(A) ==
    /\ kind = "blocking"
    /\ pc = "idle"
    /\ calls < MaxCalls
    /\ \E o \in Ops : \E a \in A[o] :
          /\ op' = o
          /\ args' = a
          /\ request' = RequestOf(o, a)
    /\ log' = <<"request">>
    /\ pc' = "sent"
    /\ calls' = calls + 1
    /\ UNCHANGED <<tasks, store, written>>
    /\ UNCHANGED <<kind, base_url, api_key, headers, ctor, session, sessState,
                   depth, scoped, lastScope, response, outcome, used>>

SdkCall == SdkCallFrom([o \in Ops |-> DefaultArgs(o)])

\* _get_session creating a session on every call
GetSessionAlwaysNew(sess, st) ==
    [session |-> Len(st) + 1, sessState |-> Append(st, "open")]

\* _get_session: if self.session is None: self.session = aiohttp.ClientSession()
\* sess is self.session, st the sessions created so far
GetSession(sess, st) ==
    IF sess = 0
    THEN [session |-> Len(st) + 1, sessState |-> Append(st, "open")]
    ELSE [session |-> sess, sessState |-> st]

\* AsyncHPKVClient.set/... : session = self._get_session(); session.<method>(...)
\* _get_session creates a session when self.session is None; aiohttp refuses a
\* request on a closed session with RuntimeError("Session is closed").
AsyncCall ==
    /\ kind = "nonblocking"
    /\ pc = "idle"
    /\ calls < MaxCalls
    /\ LET g == GetSession(session, sessState)
           s == g.session
           st == g.sessState
       IN /\ Len(st) <= MaxSessions
          /\ session' = s
          /\ sessState' = st
          /\ used' = s
          /\ \E o \in Ops : \E a \in DefaultArgs(o) :
                /\ op' = o
                /\ args' = a
                /\ IF st[s] = "closed"
                   THEN /\ request' = NoRequest
                        /\ log' = <<>>
                        /\ outcome' = RaiseOther("RuntimeError")
                        /\ pc' = "done"
                   ELSE /\ request' = RequestOf(o, a)
                        /\ log' = <<"request">>
                        /\ outcome' = outcome
                        /\ pc' = "sent"
    /\ calls' = calls + 1
    /\ UNCHANGED <<tasks, store, written>>
    /\ UNCHANGED <<kind, base_url, api_key, headers, ctor, depth, scoped,
                   lastScope, response>>

\* the server answers the request in flight
RespondFrom(R) ==
    /\ pc = "sent"
    /\ response' \in R
    /\ pc' = "responded"
    /\ UNCHANGED <<args, tasks, store, written>>
    /\ UNCHANGED <<kind, base_url, api_key, headers, ctor, session, sessState,
                   depth, scoped, lastScope, op, request, outcome, log, used, calls>>

Respond == RespondFrom(IF kind = "blocking" THEN PlainResponses ELSE Responses)

\* self._handle_errors(response) of the blocking client
HandleErrors ==
    /\ kind = "blocking"
    /\ pc = "responded"
    /\ LET r == HandleErrorsResult(response) IN
          /\ outcome' = r
          /\ pc' = IF r = NoOutcome THEN "classified" ELSE "done"
    /\ log' = Append(log, "handle_errors")
    /\ UNCHANGED <<args, tasks, store, written>>
    /\ UNCHANGED <<kind, base_url, api_key, headers, ctor, session, sessState,
                   depth, scoped, lastScope, op, request, response, used, calls>>

\* result = response.json(); the shape check; return result
Validate ==
    /\ kind = "blocking"
    /\ pc = "classified"
    /\ outcome' = ValidateResult(op, response)
    /\ log' = IF response.body.raw = "json"
              THEN log \o <<"json", "validate">>
              ELSE Append(log, "json")
    /\ pc' = "done"
    /\ UNCHANGED <<args, tasks, store, written>>
    /\ UNCHANGED <<kind, base_url, api_key, headers, ctor, session, sessState,
                   depth, scoped, lastScope, op, request, response, used, calls>>

\* await self._handle_errors(response) of the non-blocking client
AsyncHandleErrors ==
    /\ kind = "nonblocking"
    /\ pc = "responded"
    /\ LET r == AsyncHandleErrorsResult(response) IN
          /\ outcome' = r
          /\ pc' = IF r = NoOutcome THEN "classified" ELSE "done"
    /\ log' = Append(log, "handle_errors")
    /\ UNCHANGED <<args, tasks, store, written>>
    /\ UNCHANGED <<kind, base_url, api_key, headers, ctor, session, sessState,
                   depth, scoped, lastScope, op, request, response, used, calls>>

\* return await response.json()
AsyncReturn ==
    /\ kind = "nonblocking"
    /\ pc = "classified"
    /\ outcome' = AsyncReturnResult(response)
    /\ log' = Append(log, "json")
    /\ pc' = "done"
    /\ UNCHANGED <<args, tasks, store, written>>
    /\ UNCHANGED <<kind, base_url, api_key, headers, ctor, session, sessState,
                   depth, scoped, lastScope, op, request, response, used, calls>>

\* the caller has the outcome; the client keeps nothing of the call
\* FinishWith keeping the response and the outcome on the client
FinishKeepingResult(w) ==
    /\ pc = "done"
    /\ pc' = "idle"
    /\ op' = "none"
    /\ request' = NoRequest
    /\ log' = <<>>
    /\ used' = 0
    /\ args' = NoArgs
    /\ written' = w
    /\ UNCHANGED <<response, outcome, tasks, store>>
    /\ UNCHANGED <<kind, base_url, api_key, headers, ctor, session, sessState,
                   depth, scoped, lastScope, calls>>

FinishWith(w) ==
    /\ pc = "done"
    /\ pc' = "idle"
    /\ op' = "none"
    /\ request' = NoRequest
    /\ response' = NoResponse
    /\ outcome' = NoOutcome
    /\ log' = <<>>
    /\ used' = 0
    /\ args' = NoArgs
    /\ written' = w
    /\ UNCHANGED <<tasks, store>>
    /\ UNCHANGED <<kind, base_url, api_key, headers, ctor, session, sessState,
                   depth, scoped, lastScope, calls>>

Finish == FinishWith(written)

(***************************************************************************)
(* Specifications.                                                         *)
(***************************************************************************)
Init ==
    /\ kind = "none"
    /\ base_url = None
    /\ api_key = None
    /\ headers = None
    /\ ctor = NoCtor
    /\ session = 0
    /\ sessState = <<>>
    /\ depth = 0
    /\ scoped = {}
    /\ lastScope = "none"
    /\ pc = "new"
    /\ op = "none"
    /\ request = NoRequest
    /\ response = NoResponse
    /\ outcome = NoOutcome
    /\ log = <<>>
    /\ used = 0
    /\ calls = 0
    /\ args = NoArgs
    /\ tasks = <<>>
    /\ store = <<>>
    /\ written = <<>>

\* both clients, every response the server can give
Next ==
    \/ NewHPKVClient
    \/ NewAsyncHPKVClient
    \/ SdkCall
    \/ AsyncCall
    \/ Respond
    \/ HandleErrors
    \/ Validate
    \/ AsyncHandleErrors
    \/ AsyncReturn
    \/ Finish

Spec == Init /\ [][Next]_vars

\* the responses used where the session, not the response, is under study
ScopeResponses ==
    { r \in Responses :
        /\ r.status \in {200, 404}
        /\ r.body \in {[raw |-> "absent"],
                       [raw |-> "json", json |-> JObj([f \in {"success"} |-> GoodVal(f)])]}
        /\ ~r.chunked }

RespondScope == RespondFrom(ScopeResponses)

\* the non-blocking client with its usage scope
NextScope ==
    \/ NewAsyncHPKVClient
    \/ AEnter
    \/ AExit
    \/ AsyncCall
    \/ RespondScope
    \/ AsyncHandleErrors
    \/ AsyncReturn
    \/ Finish

SpecScope == Init /\ [][NextScope]_vars

(***************************************************************************)
(* A well-behaved server, and the blocking client calling it.  The server  *)
(* keeps each record under the key text it receives (in the JSON body of   *)
(* set and increment, in the path of get and delete) and holds values as   *)
(* text.                                                                   *)
(***************************************************************************)
NumRange == (0 - MaxNum)..MaxNum

IsNumeric(text) == \E n \in NumRange : ToString(n) = text

ParseInt(text) == CHOOSE n \in NumRange : ToString(n) = text

JsonResponse(status, fields) ==
    [status |-> status, body |-> [raw |-> "json", json |-> JObj(fields)],
     chunked |-> FALSE, ctype_json |-> TRUE]

NotFoundResponse == JsonResponse(404, [error |-> JStr("Record not found")])

Without(f, k) == [x \in DOMAIN f \ {k} |-> f[x]]

\* the server's answer to request req with records st: [response, store]
ServerResult(req, st) ==
    CASE req.endpoint = "/record" ->
            [response |-> JsonResponse(200, [success |-> JBool(TRUE)]),
             store |-> (req.json.key :> req.json.value) @@ st]
      [] req.endpoint = "/record/{key}" /\ req.method = "GET" ->
            IF req.path_key \in DOMAIN st
            THEN [response |-> JsonResponse(200, [key |-> JStr(req.path_key),
                                                  value |-> JStr(st[req.path_key])]),
                  store |-> st]
            ELSE [response |-> NotFoundResponse, store |-> st]
      [] req.endpoint = "/record/{key}" /\ req.method = "DELETE" ->
            IF req.path_key \in DOMAIN st
            THEN [response |-> JsonResponse(200, [success |-> JBool(TRUE)]),
                  store |-> Without(st, req.path_key)]
            ELSE [response |-> NotFoundResponse, store |-> st]
      [] req.endpoint = "/record/atomic" ->
            LET k == req.json.key IN
            IF k \notin DOMAIN st THEN [response |-> NotFoundResponse, store |-> st]
            ELSE IF IsNumeric(st[k]) /\ (ParseInt(st[k]) + req.json.increment) \in NumRange
            THEN LET n == ParseInt(st[k]) + req.json.increment IN
                 [response |-> JsonResponse(200, [success |-> JBool(TRUE),
                                                  result |-> JNum(n)]),
                  store |-> (k :> ToString(n)) @@ st]
            ELSE [response |-> JsonResponse(400, [error |-> JStr("Value is not a number")]),
                  store |-> st]

\* the server answers the request in flight
ServerRespond ==
    /\ pc = "sent"
    /\ LET r == ServerResult(request, store) IN
          /\ response' = r.response
          /\ store' = r.store
    /\ pc' = "responded"
    /\ UNCHANGED <<kind, base_url, api_key, headers, ctor, session, sessState, depth,
                   scoped, lastScope, op, request, outcome, log, used, calls, args,
                   tasks, written>>

\* the arguments of the calls made to the well-behaved server
ServerArgs == [o \in Ops |-> IF o = "query" THEN {} ELSE ArgsOf(o)]

SdkCallServer == SdkCallFrom(ServerArgs)

\* what the caller knows of a key once the call has ended: the value it set,
\* that it deleted the key, or the counter an increment returned
Noted ==
    IF outcome.kind # "return" THEN written
    ELSE CASE op = "set" -> (args.key :> [last |-> "set", value |-> args.value]) @@ written
           [] op = "delete" -> (args.key :> [last |-> "delete"]) @@ written
           [] op = "increment" ->
                (args.key :> [last |-> "increment", amount |-> args.increment,
                              result |-> outcome.value.fields["result"]]) @@ written
           [] OTHER -> written

FinishNoted == FinishWith(Noted)

\* the blocking client against the well-behaved server
NextServer ==
    \/ NewHPKVClient
    \/ SdkCallServer
    \/ ServerRespond
    \/ HandleErrors
    \/ Validate
    \/ FinishNoted

SpecServer == Init /\ [][NextServer]_vars

(***************************************************************************)
(* Concurrently scheduled calls of the non-blocking client (no usage       *)
(* scope).  A coroutine runs without interruption up to its first await:   *)
(* _get_session() and the closed-session test of session.<method>(...)     *)
(* are one step; the response arrives in another; _handle_errors and       *)
(* response.json() touch nothing the calls share.                          *)
(***************************************************************************)
TaskIds == 1..Len(tasks)

\* client.<op>(...) is called: the coroutine exists and has not run yet
TaskSchedule ==
    /\ kind = "nonblocking"
    /\ pc = "idle"
    /\ Len(tasks) < MaxTasks
    /\ \E o \in Ops : \E a \in DefaultArgs(o) :
          tasks' = Append(tasks, [pc |-> "scheduled", op |-> o, args |-> a, used |-> 0,
                                  response |-> NoResponse, outcome |-> NoOutcome])
    /\ UNCHANGED <<kind, base_url, api_key, headers, ctor, session, sessState, depth,
                   scoped, lastScope, pc, op, request, response, outcome, log, used,
                   calls, args, store, written>>

\* the coroutine runs to its first await: session = self._get_session();
\* async with session.<method>(url, headers=self.headers, ...)
TaskStart ==
    \E t \in TaskIds :
        /\ tasks[t].pc = "scheduled"
        /\ LET g == GetSession(session, sessState) IN
              /\ Len(g.sessState) <= MaxSessions
              /\ session' = g.session
              /\ sessState' = g.sessState
              /\ tasks' = [tasks EXCEPT ![t] =
                    IF g.sessState[g.session] = "closed"
                    THEN [@ EXCEPT !.pc = "done", !.used = g.session,
                                   !.outcome = RaiseOther("RuntimeError")]
                    ELSE [@ EXCEPT !.pc = "sent", !.used = g.session]]
        /\ UNCHANGED <<kind, base_url, api_key, headers, ctor, depth, scoped, lastScope,
                       pc, op, request, response, outcome, log, used, calls, args,
                       store, written>>

\* the response of a suspended call arrives
TaskRespond ==
    \E t \in TaskIds : \E r \in ScopeResponses :
        /\ tasks[t].pc = "sent"
        /\ tasks' = [tasks EXCEPT ![t] = [@ EXCEPT !.pc = "responded", !.response = r]]
        /\ UNCHANGED <<kind, base_url, api_key, headers, ctor, session, sessState, depth,
                       scoped, lastScope, pc, op, request, response, outcome, log, used,
                       calls, args, store, written>>

\* await self._handle_errors(response); return await response.json()
TaskComplete ==
    \E t \in TaskIds :
        /\ tasks[t].pc = "responded"
        /\ LET h == AsyncHandleErrorsResult(tasks[t].response)
               o == IF h = NoOutcome THEN AsyncReturnResult(tasks[t].response) ELSE h
           IN tasks' = [tasks EXCEPT ![t] = [@ EXCEPT !.pc = "done", !.outcome = o]]
        /\ UNCHANGED <<kind, base_url, api_key, headers, ctor, session, sessState, depth,
                       scoped, lastScope, pc, op, request, response, outcome, log, used,
                       calls, args, store, written>>

\* the non-blocking client with concurrently scheduled calls
NextConc ==
    \/ NewAsyncHPKVClient
    \/ TaskSchedule
    \/ TaskStart
    \/ TaskRespond
    \/ TaskComplete

SpecConc == Init /\ [][NextConc]_vars

(***************************************************************************)
(* What one whole call makes of a response, for each client.               *)
(***************************************************************************)
\* HPKVClient.<op>: _handle_errors, then response.json() and the shape check
SdkOutcome(o, resp) ==
    LET h == HandleErrorsResult(resp) IN
    IF h = NoOutcome THEN ValidateResult(o, resp) ELSE h

\* AsyncHPKVClient.<op>: _handle_errors, then return await response.json()
AsyncOutcome(o, resp) ==
    LET h == AsyncHandleErrorsResult(resp) IN
    IF h = NoOutcome THEN AsyncReturnResult(resp) ELSE h

(***************************************************************************)
(* Claims.                                                                 *)
(***************************************************************************)
Count(seq, e) == Cardinality({i \in DOMAIN seq : seq[i] = e})

IsHPKV(o) == o.kind = "raise" /\ o.cls \in HPKVFamily

\* the blocking client's call has ended, on a response
SdkDone == kind = "blocking" /\ pc = "done"

\* the status table of spec 4.7 step 3
VariantOf(s) ==
    CASE s = 400 -> "HPKVBadRequestError"
      [] s = 401 -> "HPKVUnauthorizedError"
      [] s = 403 -> "HPKVForbiddenError"
      [] s = 404 -> "HPKVNotFoundError"
      [] s = 409 -> "HPKVConflictError"
      [] s = 429 -> "HPKVRateLimitError"
      [] s >= 500 -> "HPKVInternalError"
      [] OTHER -> "HPKVException"

\* C1: for every failing status s (and whatever the body), the call of the SDK
\* client ends by raising the exception variant the status table gives for s.
C1_StatusDeterminesVariant ==
    (SdkDone /\ ~ResponseOk(response.status))
        => (outcome.kind = "raise" /\ outcome.cls = VariantOf(response.status))

\* C1 (the part that holds): whenever an exception of the HPKVException family
\* is raised for a failing status, its variant is the one the table gives.
C1_VariantWhenClassified ==
    (SdkDone /\ ~ResponseOk(response.status) /\ IsHPKV(outcome))
        => outcome.cls = VariantOf(response.status)

\* C2: a response with status 404 always ends the call by raising
\* HPKVNotFoundError, whatever the body.
C2_NotFoundWhateverBody ==
    (SdkDone /\ response.status = 404)
        => (outcome.kind = "raise" /\ outcome.cls = "HPKVNotFoundError")

\* the required fields of each operation, as the response contract lists them
RequiredFields(o) ==
    CASE o = "set" -> {"success"}
      [] o = "get" -> {"key", "value"}
      [] o = "delete" -> {"success"}
      [] o = "increment" -> {"result"}
      [] o = "query" -> {"records", "count"}

Complete(o, v) == v.t = "obj" /\ RequiredFields(o) \subseteq DOMAIN v.fields

\* C3: on a success status, a decoded body that is not an object or lacks a
\* required field of the operation makes the call raise HPKVInternalError
\* carrying the status and the decoded body; a body is returned only when it
\* is an object with every required field, and then it is returned as decoded.
C3_ShapeValidation ==
    /\ (SdkDone /\ ResponseOk(response.status) /\ response.body.raw = "json")
          => LET v == response.body.json IN
             IF Complete(op, v)
             THEN outcome = Return(v)
             ELSE /\ outcome.kind = "raise"
                  /\ outcome.cls = "HPKVInternalError"
                  /\ outcome.status_code = response.status
                  /\ outcome.response_data = v
    /\ (SdkDone /\ outcome.kind = "return")
          => /\ response.body.raw = "json"
             /\ Complete(op, response.body.json)

\* C3 witness: get, status 200, an object with key but no value: rejected
C3_Witness ==
    /\ SdkDone /\ op = "get" /\ response.status = 200
    /\ response.body.raw = "json" /\ response.body.json.t = "obj"
    /\ DOMAIN response.body.json.fields = {"key"}
    /\ outcome.kind = "raise" /\ outcome.cls = "HPKVInternalError"

\* C4: every call of the SDK client either returns a validated result or raises
\* an exception of the HPKVException family; no other exception escapes.
C4_OnlyTypedExceptions ==
    SdkDone => (outcome.kind = "return" \/ IsHPKV(outcome))

\* C5: on a failing status the call raises the status-classified exception and
\* the body is never shape-validated (no "Invalid response format" error).
C5_StatusBeforeShape ==
    (SdkDone /\ ~ResponseOk(response.status))
        => /\ outcome.kind = "raise"
           /\ outcome.cls = VariantOf(response.status)
           /\ Count(log, "validate") = 0

\* C5 (the part that holds): _handle_errors runs before any decoding of the body
\* for validation, and on a failing status neither response.json() for the
\* result nor the shape check runs, so the format error is never produced.
C5_NeverValidatedOnFailure ==
    /\ (kind = "blocking" /\ Count(log, "validate") > 0)
          => /\ Len(log) >= 3 /\ log[2] = "handle_errors"
             /\ ResponseOk(response.status)
    /\ (SdkDone /\ ~ResponseOk(response.status))
          => /\ Count(log, "validate") = 0 /\ Count(log, "json") = 0
             /\ ~(IsHPKV(outcome) /\ outcome.message = InvalidFormat)

\* the body as decoded, None when absent or not decodable
Decoded(body) == IF body.raw = "json" THEN body.json ELSE None

\* C6: every exception of the HPKVException family raised for a response
\* (classified by status, or the format error) carries the response's status
\* code and its decoded body unchanged, None when absent or undecodable.
C6_ExceptionCarriesResponse ==
    (SdkDone /\ IsHPKV(outcome))
        => /\ outcome.status_code = response.status
           /\ outcome.response_data = Decoded(response.body)

\* C6 witness: a status-classified exception carrying a decoded body that is
\* not an object
C6_Witness ==
    /\ SdkDone /\ IsHPKV(outcome) /\ ~ResponseOk(response.status)
    /\ response.body.raw = "json" /\ response.body.json = JStr("abc")
    /\ outcome.response_data = JStr("abc")

\* C7: every call issues exactly one HTTP request and surfaces exactly one
\* outcome; a returned value is the decoded body verbatim (truncated included).
C7_OneRequestOneOutcome ==
    pc = "done"
        => /\ Count(log, "request") = 1
           /\ outcome # NoOutcome
           /\ outcome.kind = "return" => outcome.value = Decoded(response.body)

\* C7 (the part that holds): no call issues more than one request, and a call
\* whose session is open issues exactly one.
C7_AtMostOneRequest ==
    /\ Count(log, "request") <= 1
    /\ (pc = "done" /\ (kind = "blocking" \/ sessState[used] = "open"))
          => Count(log, "request") = 1

NonEmptyString(v) == v.t = "str" /\ v.s # ""

\* C8: construction succeeds iff endpoint and credential are non-empty strings,
\* and fails with ValueError otherwise; it issues no request and creates no
\* transport session.
C8_Construction ==
    /\ ctor.result # "none"
          => /\ ctor.result = "ok"
                  <=> (NonEmptyString(ctor.base_url) /\ NonEmptyString(ctor.api_key))
             /\ ctor.result # "ok" => (ctor.result = "ValueError" /\ kind = "none")
             /\ ctor.result = "ok"
                  => /\ kind = ctor.kind
                     /\ base_url = ctor.base_url /\ api_key = ctor.api_key
    /\ (calls = 0 /\ lastScope = "none")
          => /\ request = NoRequest /\ log = <<>>
             /\ session = 0 /\ sessState = <<>>

\* C8 witness: the non-blocking client constructed with an endpoint and an
\* empty credential: ValueError, no client, no session
C8_Witness ==
    /\ ctor.result = "ValueError" /\ ctor.kind = "nonblocking"
    /\ NonEmptyString(ctor.base_url) /\ ctor.api_key = JStr("")
    /\ kind = "none" /\ session = 0

\* what the other client makes of the same operation and response
OtherClientOutcome(o, resp) ==
    IF kind = "blocking" THEN AsyncOutcome(o, resp) ELSE SdkOutcome(o, resp)

\* C9: for every operation and response, the blocking and the non-blocking
\* client produce the same outcome.
C9_SameOutcome ==
    (pc = "done" /\ response # NoResponse)
        => outcome = OtherClientOutcome(op, response)

\* C10: once every scope entered has been left, every transport session the
\* client ever created is closed.
C10_NoSessionLeak ==
    (kind = "nonblocking" /\ depth = 0 /\ lastScope = "aexit")
        => \A i \in 1..Len(sessState) : sessState[i] = "closed"

\* C11: without a usage scope, no session exists before the first call runs,
\* at most one session is ever created under any interleaving of the calls,
\* and every call that has run uses that one session.
C11_SingleLazySession ==
    kind = "nonblocking"
        => /\ (\A t \in TaskIds : tasks[t].pc = "scheduled")
                => (session = 0 /\ sessState = <<>>)
           /\ Len(sessState) <= 1
           /\ \A t \in TaskIds :
                tasks[t].pc # "scheduled"
                    => (tasks[t].used = 1 /\ session = 1 /\ sessState = <<"open">>)

\* C11 witness: two calls suspended at the same time, on the one session
C11_Witness ==
    /\ Len(tasks) >= 2
    /\ tasks[1].pc = "sent" /\ tasks[2].pc = "sent"
    /\ tasks[1].used = tasks[2].used /\ Len(sessState) = 1

\* the call in progress is on a key the caller last touched with operation o
LastWas(o) ==
    /\ args.key \in DOMAIN written
    /\ written[args.key].last = o

\* the text of each value a caller passes to set: strings as they are, the
\* others as json.dumps prints them
TransmittedText(v) ==
    CASE v = JStr("v") -> "v"
      [] v = JStr("42") -> "42"
      [] v = JStr("0") -> "0"
      [] v = JNum(42) -> "42"
      [] v = JObj([a |-> JNum(1)]) -> "{\"a\": 1}"
      [] v = JArr(<<JNum(1), JNum(2)>>) -> "[1, 2]"

\* C12: against a well-behaved server, a get of a key whose last successful
\* write was set(key, v) returns as value the transmitted text of v (v itself
\* for a string, its JSON text otherwise), as a string that is never decoded;
\* so a set of 42 and a set of "42" give the same get.
C12_SetThenGet ==
    (SdkDone /\ op = "get" /\ LastWas("set"))
        => /\ outcome.kind = "return"
           /\ outcome.value.fields["value"] = JStr(TransmittedText(written[args.key].value))

C12_Witness ==
    /\ SdkDone /\ op = "get" /\ LastWas("set")
    /\ written[args.key].value = JObj([a |-> JNum(1)])
    /\ outcome.kind = "return"
    /\ outcome.value.fields["value"] = JStr("{\"a\": 1}")

\* C13: against a well-behaved server, a get of a key whose last successful
\* write was a delete (which followed a set) raises HPKVNotFoundError and
\* returns no value.
C13_GetAfterDelete ==
    (SdkDone /\ op = "get" /\ LastWas("delete"))
        => (outcome.kind = "raise" /\ outcome.cls = "HPKVNotFoundError")

C13_Witness ==
    /\ SdkDone /\ op = "get" /\ LastWas("delete")
    /\ outcome.kind = "raise" /\ outcome.cls = "HPKVNotFoundError"
    /\ calls = 3

\* the numeric value the caller knows the key to hold
KnownNumber(k) ==
    IF written[k].last = "increment" THEN written[k].result.n
    ELSE IF written[k].value = JNum(42) \/ written[k].value = JStr("42") THEN 42
    ELSE 0

HoldsNumber(k) ==
    /\ k \in DOMAIN written
    /\ \/ written[k].last = "increment"
       \/ /\ written[k].last = "set"
          /\ written[k].value \in {JNum(42), JStr("42"), JStr("0")}

\* C14: against a well-behaved server, an increment of a key holding the
\* number n by amount a sends a unchanged and returns result = n + a; hence
\* increment by 1 returns n + 1 and a following increment by -1 returns n.
C14_IncrementRoundTrip ==
    (kind = "blocking" /\ op = "increment" /\ pc # "idle")
        => /\ request.json.increment = args.increment
           /\ (pc = "done" /\ HoldsNumber(args.key))
                => /\ outcome.kind = "return"
                   /\ outcome.value.fields["result"]
                        = JNum(KnownNumber(args.key) + args.increment)
                   /\ (/\ written[args.key].last = "increment"
                       /\ written[args.key].amount = 1
                       /\ args.increment = 0 - 1)
                        => outcome.value.fields["result"].n + 1
                             = written[args.key].result.n

C14_Witness ==
    /\ SdkDone /\ op = "increment" /\ LastWas("increment")
    /\ written[args.key].amount = 1 /\ written[args.key].result = JNum(43)
    /\ args.increment = 0 - 1
    /\ outcome.kind = "return"
    /\ outcome.value.fields["result"] = JNum(42)

\* the response contract: the type of each required field
IsRecord(v) ==
    /\ v.t = "obj"
    /\ {"key", "value"} \subseteq DOMAIN v.fields
    /\ v.fields["key"].t = "str" /\ v.fields["value"].t = "str"

HasType(f, v) ==
    CASE f = "success" -> v.t = "bool"
      [] f = "key" -> v.t = "str"
      [] f = "value" -> v.t = "str"
      [] f = "result" -> v.t = "num"
      [] f = "count" -> v.t = "num"
      [] f = "records" -> v.t = "arr" /\ \A i \in DOMAIN v.items : IsRecord(v.items[i])

WellTyped(o, v) ==
    /\ Complete(o, v)
    /\ \A f \in RequiredFields(o) : HasType(f, v.fields[f])

\* C15: a result is returned only when every required field of the operation
\* has its contract type; a success response with a required field of another
\* type is rejected with the internal-format error.
C15_TypedResults ==
    /\ (SdkDone /\ outcome.kind = "return") => WellTyped(op, outcome.value)
    /\ (SdkDone /\ ResponseOk(response.status) /\ response.body.raw = "json"
            /\ ~WellTyped(op, response.body.json))
          => (outcome.kind = "raise" /\ outcome.cls = "HPKVInternalError"
                /\ outcome.message = InvalidFormat)

\* a call has ended on a response that its client takes for a failure
FailedCall ==
    /\ pc = "done" /\ response # NoResponse
    /\ \/ kind = "blocking" /\ ~ResponseOk(response.status)
       \/ kind = "nonblocking" /\ response.status >= 400

\* the message spec 4.7 step 2 derives from a failing response
ExpectedMessage(resp) ==
    LET d == Decoded(resp.body) IN
    IF d.t = "obj" /\ "error" \in DOMAIN d.fields
    THEN d.fields["error"]
    ELSE GenericMessage(resp.status)

\* C16: for every failing response the raised exception's message is the error
\* field of the decoded body when that is an object with the field, and
\* otherwise the generic "HTTP error {status}".
C16_Message ==
    FailedCall
        => (IsHPKV(outcome) /\ outcome.message = ExpectedMessage(response))

\* the part of C16 that holds: an HPKVException raised by the blocking client,
\* or by the non-blocking client for a body announced with its length, has
\* that message
C16_MessageWhenRaised ==
    (FailedCall /\ IsHPKV(outcome)
        /\ (kind = "nonblocking" => (~response.chunked \/ response.body.raw # "json")))
        => outcome.message = ExpectedMessage(response)

\* the failing response's body is absent or is not JSON
Undecodable == response.body.raw \in {"absent", "garbage"}

\* the exception class the client gives a failing status
ClassifiedAs(status) ==
    IF kind = "blocking" THEN VariantOf(status) ELSE "HPKVException"

\* C17: in both clients, when the status indicates failure and the body is
\* absent or not decodable as JSON, whatever its length or content type, the
\* call raises the status-classified exception with the generic message and
\* no decoded body; the decode failure is never the outcome.
C17_DecodeFailureTolerated ==
    (FailedCall /\ Undecodable)
        => outcome = Raise(ClassifiedAs(response.status),
                           GenericMessage(response.status), response.status, None)

\* the part of C17 that holds: the blocking client, and the non-blocking
\* client when the content type is JSON or no length is announced
C17_ToleratedWhenJsonType ==
    (FailedCall /\ Undecodable
        /\ (kind = "nonblocking" => (response.ctype_json \/ response.chunked)))
        => outcome = Raise(ClassifiedAs(response.status),
                           GenericMessage(response.status), response.status, None)

\* what the client in use makes of operation o answered by resp
ClientOutcome(o, resp) ==
    IF kind = "blocking" THEN SdkOutcome(o, resp) ELSE AsyncOutcome(o, resp)

\* C18: after construction base_url, api_key and the headers stay what the
\* constructor made them, through every call, returning or raising; between
\* calls the client holds nothing of a request, response or result; and the
\* outcome of a call is a function of its own arguments and response alone.
C18_ConfigurationImmutable ==
    /\ kind # "none"
          => /\ base_url = ctor.base_url
             /\ api_key = ctor.api_key
             /\ headers = DefaultHeaders(ctor.api_key)
    /\ pc = "idle"
          => /\ op = "none" /\ args = NoArgs
             /\ request = NoRequest /\ response = NoResponse /\ outcome = NoOutcome
    /\ request # NoRequest
          => request = Payload(op, args)
                         @@ [method |-> Method(op), endpoint |-> Endpoint(op),
                             headers |-> DefaultHeaders(ctor.api_key)]
    /\ (pc = "done" /\ response # NoResponse)
          => outcome = ClientOutcome(op, response)

\* C18 witness: the second call through one client has raised, the
\* configuration is as constructed
C18_Witness ==
    /\ calls = 2 /\ pc = "done" /\ outcome.kind = "raise"
    /\ headers = DefaultHeaders(ctor.api_key) /\ base_url = ctor.base_url

\* C19: in the non-blocking client a call never uses a closed session: the
\* session a call takes is open, also after a usage scope was left, and no
\* call ends on the transport's "Session is closed" error.
C19_NeverUsesClosedSession ==
    (kind = "nonblocking" /\ pc # "idle" /\ used # 0)
        => /\ sessState[used] = "open"
           /\ outcome # RaiseOther("RuntimeError")

====
